---- MODULE Spec2Model ----
(***************************************************************************)
(* The IoC container (framework/container/container.go), its contextual    *)
(* builder (contextual.go) and the service-provider registry (provider.go) *)
(* as a state machine.  Every goroutine is a call stack of frames; one     *)
(* step of the model is one atomic piece of a Go function: a critical      *)
(* section of c.mu, or one access made outside the lock.                   *)
(***************************************************************************)
EXTENDS Naturals, Sequences, FiniteSets, TLC

\* ------------------------------------------------------------------ bounds

\* Operations each goroutine issues from the top level.
MaxOps == 5
\* Builds each goroutine issues when two of them build consumers concurrently.
MaxBuilds == 1
\* Resolutions issued by the goroutine that resolves while another registers.
MaxResolves == 2
\* Frames a goroutine's call stack holds before the runtime stops the process
\* for exhausting it.
MaxDepth == 12

\* ------------------------------------------------------------------ universe

Threads == {1, 2}
Names == {"cons", "container", "dep", "svc"}
DepName == "dep"
\* The key under which New registers the container itself.
ContainerKey == "container"
Tags == {"t"}
NoName == "-"

Value(src, n) == [src |-> src, n |-> n, ext |-> <<>>]
Absent == Value("absent", 0)
Nil == Value("nil", 0)
GivenValue == Value("given", 0)
\* The container, as a value.
Self == Value("self", 0)

\* User factories.  fA, fB, fGive and fCons allocate a fresh value on each call
\* (fCons after resolving DepName through the container); fPanic panics; fNil
\* returns nil; fValue is the closure GiveValue wraps around its value.
FreshFactories == {"fA", "fB", "fGive", "fCons"}
NoFactory == "none"

\* The providers: two eager ones, a deferred one that provides "dep" and "svc",
\* an eager one whose Boot registers a further eager provider and then calls
\* the registry's Boot, and a deferred one that provides "cons" and binds
\* only "svc".
Providers == {"pEager", "pEager2", "pDeferred", "pBooter", "pLate", "pHollow"}
NoProvider == "none"
IsDeferred(p) == p \in {"pDeferred", "pHollow"}
Provides(p) ==
    IF p = "pDeferred" THEN <<"dep", "svc">>
    ELSE IF p = "pHollow" THEN <<"cons">>
    ELSE <<>>
\* What each provider's Register binds.
Registers(p) ==
    IF p = "pDeferred"
    THEN <<[abs |-> "dep", f |-> "fA", single |-> TRUE],
           [abs |-> "svc", f |-> "fB", single |-> TRUE]>>
    ELSE IF p = "pHollow"
    THEN <<[abs |-> "svc", f |-> "fB", single |-> TRUE]>>
    ELSE IF p = "pEager"
    THEN <<[abs |-> "cons", f |-> "fB", single |-> TRUE]>>
    ELSE <<[abs |-> "cons", f |-> "fB", single |-> FALSE]>>
\* What each provider's Boot calls on the registry.
BootOps(p) ==
    IF p = "pBooter"
    THEN <<[op |-> "register", p |-> "pLate"], [op |-> "boot", p |-> NoProvider]>>
    ELSE <<>>
\* The closure interceptDeferred binds for each provided abstract.
LazyFactory == [dep |-> "lazyDep", svc |-> "lazySvc", cons |-> "lazyCons",
                container |-> "lazyContainer"]
LazyFactories == {LazyFactory[n] : n \in Names}
LazyAbstract(f) == CHOOSE n \in Names : LazyFactory[n] = f
\* The provider the closure bound for an abstract has captured.
LazyProvider(abs) == IF abs = "cons" THEN "pHollow" ELSE "pDeferred"

NoBinding == [factory |-> NoFactory, singleton |-> FALSE]

VARIABLES
    mu,                \* c.mu: the goroutine holding the write lock, 0 when free
    bindings, instances, aliases, extenders, tags, contextual,
    reboundCallbacks, afterResolving, buildStack,
    stack,             \* per goroutine: its call stack of frames
    ret,               \* per goroutine: the value the last returned call gave
    status,            \* per goroutine: "run" | "panic"
    err,               \* per goroutine: the panic in flight or last recovered
    ops,               \* per goroutine: top-level operations issued
    crashed,           \* the runtime stopped the process (fatal error)
    calls,             \* user code: times each factory has been invoked
    prev, prevA, builds, \* history of Make per canonical key
    eager, deferred, booted, registered, \* the ProviderRegistry
    regCalls, bootCalls, \* user code: times each provider's Register, Boot ran
    regLog, bootLog    \* user code: the providers in the order their Register, Boot ran

tables == <<bindings, instances, aliases, extenders, tags, contextual,
            reboundCallbacks, afterResolving>>
hist == <<prev, prevA, builds>>
registry == <<eager, deferred, booted, registered, regCalls, bootCalls, regLog, bootLog>>
vars == <<mu, tables, buildStack, stack, ret, status, err, ops, crashed, calls, hist,
          registry>>

\* ------------------------------------------------------------------ frames

Frame(fn, pc, abs) ==
    [fn |-> fn, pc |-> pc, abs |-> abs, key |-> NoName, caller |-> NoName,
     f |-> NoFactory, single |-> FALSE, val |-> Absent, fired |-> <<>>,
     hit |-> FALSE, ctx |-> FALSE, stale |-> FALSE, deferUnlock |-> FALSE,
     was |-> FALSE, n0 |-> 0, p |-> NoProvider, i |-> 0, range |-> <<>>,
     tag |-> NoName, result |-> <<>>, typ |-> NoName, ok |-> FALSE]

Top(t) == stack[t][Len(stack[t])]
Idle(t) == ~crashed /\ status[t] = "run" /\ stack[t] = <<>>
At(t, fn, pc) ==
    /\ ~crashed /\ status[t] = "run" /\ stack[t] # <<>>
    /\ Top(t).fn = fn /\ Top(t).pc = pc

SetTop(st, t, fr) == [st EXCEPT ![t] = [@ EXCEPT ![Len(@)] = fr]]
Pushed(st, t, fr, callee) == [st EXCEPT ![t] = Append([@ EXCEPT ![Len(@)] = fr], callee)]
Popped(st, t) == [st EXCEPT ![t] = SubSeq(@, 1, Len(@) - 1)]

Goto(t, fr) == stack' = SetTop(stack, t, fr)
Call(t, fr, callee) == stack' = Pushed(stack, t, fr, callee)
Leave(t) == stack' = Popped(stack, t)
Return(t, v) ==
    /\ Leave(t)
    /\ ret' = [ret EXCEPT ![t] = v]
Panic(t, what) ==
    /\ status' = [status EXCEPT ![t] = "panic"]
    /\ err' = [err EXCEPT ![t] = what]
Start(t, fr) ==
    /\ Idle(t) /\ ops[t] < MaxOps
    /\ ops' = [ops EXCEPT ![t] = @ + 1]
    /\ stack' = [stack EXCEPT ![t] = <<fr>>]
    /\ err' = [err EXCEPT ![t] = "none"]

\* Marks the in-flight resolutions of key: they began under a registration
\* that has since been replaced.
MarkStale(st, key) ==
    [u \in Threads |->
        [i \in 1..Len(st[u]) |->
            IF st[u][i].fn = "make" /\ st[u][i].key = key
            THEN [st[u][i] EXCEPT !.stale = TRUE] ELSE st[u][i]]]

\* ------------------------------------------------------------------ helpers

canonical(abstract) ==
    IF aliases[abstract] # NoName THEN aliases[abstract] ELSE abstract

Decorate(v, e) == [v EXCEPT !.ext = Append(@, e)]

RECURSIVE ApplyFrom(_, _, _)
ApplyFrom(exts, i, v) ==
    IF i > Len(exts) THEN v ELSE ApplyFrom(exts, i + 1, Decorate(v, exts[i]))

\* applyExtenders that ranges over the extenders last to first.
applyExtenders_Reversed(key, instance) ==
    LET exts == extenders[key]
        n == Len(exts) IN
    ApplyFrom([i \in 1..n |-> exts[n + 1 - i]], 1, instance)

applyExtenders(key, instance) ==
    ApplyFrom(extenders[key], 1, instance)

\* ------------------------------------------------------------------ Init

Init ==
    /\ mu = 0
    /\ bindings = [k \in Names |-> NoBinding]
    /\ instances = [k \in Names |-> Absent]
    /\ aliases = [k \in Names |-> NoName]
    /\ extenders = [k \in Names |-> <<>>]
    /\ tags = [g \in Tags |-> <<>>]
    /\ contextual = [k \in Names |-> [d \in Names |-> NoFactory]]
    /\ reboundCallbacks = [k \in Names |-> <<>>]
    /\ afterResolving = <<>>
    /\ buildStack = <<>>
    /\ stack = [t \in Threads |-> <<>>]
    /\ ret = [t \in Threads |-> Absent]
    /\ status = [t \in Threads |-> "run"]
    /\ err = [t \in Threads |-> "none"]
    /\ ops = [t \in Threads |-> 0]
    /\ crashed = FALSE
    /\ calls = [f \in FreshFactories |-> 0]
    /\ prev = [k \in Names |-> Absent]
    /\ prevA = [k \in Names |-> Absent]
    /\ builds = [k \in Names |-> 0]
    /\ eager = <<>>
    /\ deferred = [k \in Names |-> NoProvider]
    /\ booted = FALSE
    /\ registered = [p \in Providers |-> FALSE]
    /\ regCalls = [p \in Providers |-> 0]
    /\ bootCalls = [p \in Providers |-> 0]
    /\ regLog = <<>>
    /\ bootLog = <<>>

\* ------------------------------------------------------------------ Make

\* make: key := c.canonical(abstract), read outside the lock.
MakeCanonical(t) ==
    /\ At(t, "make", "canonical")
    /\ Goto(t, [Top(t) EXCEPT !.key = canonical(Top(t).abs), !.pc = "cache"])
    /\ UNCHANGED <<registry, mu, tables, buildStack, ret, status, err, ops, crashed, calls, hist>>

\* make that never finds a cached instance.
MakeCache_Miss(t) ==
    /\ At(t, "make", "cache")
    /\ mu = 0
    /\ Goto(t, [Top(t) EXCEPT !.pc = "stack"])
    /\ UNCHANGED <<registry, mu, tables, buildStack, ret, status, err, ops, crashed, calls, hist>>

\* make: the instance cache is consulted first, under the read lock.
MakeCache(t) ==
    /\ At(t, "make", "cache")
    /\ mu = 0
    /\ LET fr == Top(t) IN
       IF instances[fr.key] # Absent
       THEN Goto(t, [fr EXCEPT !.val = instances[fr.key], !.hit = TRUE, !.pc = "ret"])
       ELSE Goto(t, [fr EXCEPT !.pc = "stack"])
    /\ UNCHANGED <<registry, mu, tables, buildStack, ret, status, err, ops, crashed, calls, hist>>

\* make: len(c.buildStack) > 0 and its top, read outside the lock.
MakeBuildStackTop(t) ==
    /\ At(t, "make", "stack")
    /\ LET fr == Top(t) IN
       IF Len(buildStack) > 0
       THEN Goto(t, [fr EXCEPT !.caller = buildStack[Len(buildStack)], !.pc = "contextual"])
       ELSE Goto(t, [fr EXCEPT !.pc = "binding"])
    /\ UNCHANGED <<registry, mu, tables, buildStack, ret, status, err, ops, crashed, calls, hist>>

getContextual(concrete, abstract) == contextual[concrete][abstract]

\* make: c.getContextual(caller, abstract); a hit runs that factory uncached.
MakeContextual(t) ==
    /\ At(t, "make", "contextual")
    /\ mu = 0
    /\ LET fr == Top(t)
           f == getContextual(fr.caller, fr.abs) IN
       IF f # NoFactory
       THEN Goto(t, [fr EXCEPT !.f = f, !.single = FALSE, !.ctx = TRUE, !.pc = "push"])
       ELSE Goto(t, [fr EXCEPT !.pc = "binding"])
    /\ UNCHANGED <<registry, mu, tables, buildStack, ret, status, err, ops, crashed, calls, hist>>

\* make: the binding lookup; no binding panics.
MakeBinding(t) ==
    /\ At(t, "make", "binding")
    /\ mu = 0
    /\ LET fr == Top(t)
           b == bindings[fr.key] IN
       IF b = NoBinding
       THEN /\ Panic(t, "unregistered")
            /\ UNCHANGED stack
       ELSE /\ Goto(t, [fr EXCEPT !.f = b.factory, !.single = b.singleton, !.pc = "push"])
            /\ UNCHANGED <<status, err>>
    /\ UNCHANGED <<registry, mu, tables, buildStack, ret, ops, crashed, calls, hist>>

FactoryFrame(f) == [Frame("factory", "body", NoName) EXCEPT !.f = f]

\* runFactory: push key on the build stack and invoke the factory.
RunFactoryPush(t) ==
    /\ At(t, "make", "push")
    /\ LET fr == Top(t) IN
       /\ buildStack' = Append(buildStack, fr.key)
       /\ Call(t, [fr EXCEPT !.pc = "pop"], FactoryFrame(fr.f))
       /\ builds' = IF fr.single /\ ~fr.stale
                    THEN [builds EXCEPT ![fr.key] = @ + 1] ELSE builds
    /\ UNCHANGED <<registry, mu, tables, ret, status, err, ops, crashed, calls, prev, prevA>>

\* runFactory: the factory returned; drop the last entry of the build stack.
RunFactoryPop(t) ==
    /\ At(t, "make", "pop")
    /\ LET fr == Top(t) IN
       IF Len(buildStack) = 0
       THEN /\ Panic(t, "bounds")
            /\ UNCHANGED <<stack, buildStack>>
       ELSE /\ buildStack' = SubSeq(buildStack, 1, Len(buildStack) - 1)
            /\ Goto(t, [fr EXCEPT !.val = ret[t], !.pc = "extenders"])
            /\ UNCHANGED <<status, err>>
    /\ UNCHANGED <<registry, mu, tables, ret, ops, crashed, calls, hist>>

\* runFactory among other goroutines.  c.buildStack is read and written with
\* no lock held, so the append and the truncation are each a read of the slice
\* followed by a write of what was computed from it: a write in between by
\* another goroutine is overwritten.
RunFactoryPushRead(t) ==
    /\ At(t, "make", "push")
    /\ Goto(t, [Top(t) EXCEPT !.range = buildStack, !.pc = "pushing"])
    /\ UNCHANGED <<registry, mu, tables, buildStack, ret, status, err, ops, crashed, calls, hist>>

RunFactoryPushWrite(t) ==
    /\ At(t, "make", "pushing")
    /\ LET fr == Top(t) IN
       /\ buildStack' = Append(fr.range, fr.key)
       /\ Call(t, [fr EXCEPT !.pc = "pop"], FactoryFrame(fr.f))
       /\ builds' = IF fr.single /\ ~fr.stale
                    THEN [builds EXCEPT ![fr.key] = @ + 1] ELSE builds
    /\ UNCHANGED <<registry, mu, tables, ret, status, err, ops, crashed, calls, prev, prevA>>

RunFactoryPopRead(t) ==
    /\ At(t, "make", "pop")
    /\ Goto(t, [Top(t) EXCEPT !.val = ret[t], !.range = buildStack, !.pc = "popping"])
    /\ UNCHANGED <<registry, mu, tables, buildStack, ret, status, err, ops, crashed, calls, hist>>

RunFactoryPopWrite(t) ==
    /\ At(t, "make", "popping")
    /\ LET fr == Top(t) IN
       IF Len(fr.range) = 0
       THEN /\ Panic(t, "bounds")
            /\ UNCHANGED <<stack, buildStack>>
       ELSE /\ buildStack' = SubSeq(fr.range, 1, Len(fr.range) - 1)
            /\ Goto(t, [fr EXCEPT !.pc = "extenders"])
            /\ UNCHANGED <<status, err>>
    /\ UNCHANGED <<registry, mu, tables, ret, ops, crashed, calls, hist>>

\* runFactory: exts := c.extenders[key] under the read lock.
RunFactoryExtenders(t) ==
    /\ At(t, "make", "extenders")
    /\ mu = 0
    /\ LET fr == Top(t) IN
       Goto(t, [fr EXCEPT !.pc =
            IF Len(extenders[fr.key]) > 0 THEN "apply"
            ELSE IF fr.single THEN "lock" ELSE "after"])
    /\ UNCHANGED <<registry, mu, tables, buildStack, ret, status, err, ops, crashed, calls, hist>>

\* runFactory: instance = c.applyExtenders(key, instance), outside the lock.
RunFactoryApply(t) ==
    /\ At(t, "make", "apply")
    /\ LET fr == Top(t) IN
       Goto(t, [fr EXCEPT !.val = applyExtenders(fr.key, fr.val),
                          !.pc = IF fr.single THEN "lock" ELSE "after"])
    /\ UNCHANGED <<registry, mu, tables, buildStack, ret, status, err, ops, crashed, calls, hist>>

\* runFactory: c.mu.Lock() before the cache write of a singleton.
RunFactoryLock(t) ==
    /\ At(t, "make", "lock")
    /\ mu = 0
    /\ mu' = t
    /\ Goto(t, [Top(t) EXCEPT !.pc = "store"])
    /\ UNCHANGED <<registry, tables, buildStack, ret, status, err, ops, crashed, calls, hist>>

\* runFactory without the cache write of a singleton.
RunFactoryStore_NoCache(t) ==
    /\ At(t, "make", "store")
    /\ Goto(t, [Top(t) EXCEPT !.pc = "after"])
    /\ mu' = 0
    /\ UNCHANGED <<registry, tables, buildStack, ret, status, err, ops, crashed, calls, hist>>

\* runFactory: c.instances[key] = instance; c.mu.Unlock().
RunFactoryStore(t) ==
    /\ At(t, "make", "store")
    /\ LET fr == Top(t) IN
       /\ instances' = [instances EXCEPT ![fr.key] = fr.val]
       /\ Goto(t, [fr EXCEPT !.pc = "after"])
    /\ mu' = 0
    /\ UNCHANGED <<registry, tags, bindings, aliases, extenders, contextual, reboundCallbacks,
                   afterResolving, buildStack, ret, status, err, ops, crashed, calls, hist>>

\* fireAfterResolving that calls nobody.
FireAfterResolving_Skip(t) ==
    /\ At(t, "make", "after")
    /\ mu = 0
    /\ Goto(t, [Top(t) EXCEPT !.pc = "ret"])
    /\ UNCHANGED <<registry, mu, tables, buildStack, ret, status, err, ops, crashed, calls, hist>>

\* fireAfterResolving: the callbacks are read under the read lock and called.
FireAfterResolving(t) ==
    /\ At(t, "make", "after")
    /\ mu = 0
    /\ Goto(t, [Top(t) EXCEPT !.fired = afterResolving, !.pc = "ret"])
    /\ UNCHANGED <<registry, mu, tables, buildStack, ret, status, err, ops, crashed, calls, hist>>

\* make returns its value to the caller.
MakeReturn(t) ==
    /\ At(t, "make", "ret")
    /\ LET fr == Top(t) IN
       /\ Return(t, fr.val)
       /\ prev' = IF fr.stale THEN prev ELSE [prev EXCEPT ![fr.key] = fr.val]
       /\ prevA' = IF fr.stale \/ fr.ctx THEN prevA ELSE [prevA EXCEPT ![fr.key] = fr.val]
    /\ UNCHANGED <<registry, mu, tables, buildStack, status, err, ops, crashed, calls, builds>>

\* ------------------------------------------------------------------ factories

\* A factory that allocates: the n-th call returns the n-th value.
FactoryFresh(t) ==
    /\ At(t, "factory", "body")
    /\ Top(t).f \in {"fA", "fB", "fGive"}
    /\ calls' = [calls EXCEPT ![Top(t).f] = @ + 1]
    /\ Return(t, Value(Top(t).f, calls[Top(t).f] + 1))
    /\ UNCHANGED <<registry, mu, tables, buildStack, status, err, ops, crashed, hist>>

\* The consumer's factory resolves its dependency through the container.
FactoryConsCall(t) ==
    /\ At(t, "factory", "body")
    /\ Top(t).f = "fCons"
    /\ Call(t, [Top(t) EXCEPT !.pc = "built"], Frame("make", "canonical", DepName))
    /\ UNCHANGED <<registry, mu, tables, buildStack, ret, status, err, ops, crashed, calls, hist>>

FactoryConsReturn(t) ==
    /\ At(t, "factory", "built")
    /\ Top(t).f = "fCons"
    /\ calls' = [calls EXCEPT !["fCons"] = @ + 1]
    /\ Return(t, Value("fCons", calls["fCons"] + 1))
    /\ UNCHANGED <<registry, mu, tables, buildStack, status, err, ops, crashed, hist>>

FactoryPanic(t) ==
    /\ At(t, "factory", "body")
    /\ Top(t).f = "fPanic"
    /\ Panic(t, "factory")
    /\ UNCHANGED <<registry, mu, tables, buildStack, stack, ret, ops, crashed, calls, hist>>

\* A factory returning nil, and the closure GiveValue wraps around its value.
FactoryConst(t) ==
    /\ At(t, "factory", "body")
    /\ Top(t).f \in {"fNil", "fValue"}
    /\ Return(t, IF Top(t).f = "fNil" THEN Nil ELSE GivenValue)
    /\ UNCHANGED <<registry, mu, tables, buildStack, status, err, ops, crashed, calls, hist>>

\* ------------------------------------------------------------------ panics

\* A panic unwinds one frame, running its deferred c.mu.Unlock(); Unlock of a
\* mutex nobody write-holds is a fatal error.  With the last frame gone the
\* caller of the operation has the panic.
Unwind(t) ==
    /\ ~crashed /\ status[t] = "panic" /\ stack[t] # <<>>
    /\ LET fr == Top(t) IN
       IF fr.deferUnlock /\ mu = 0
       THEN /\ crashed' = TRUE
            /\ UNCHANGED <<mu, stack, status>>
       ELSE /\ mu' = IF fr.deferUnlock THEN 0 ELSE mu
            /\ stack' = [stack EXCEPT ![t] = SubSeq(@, 1, Len(@) - 1)]
            /\ status' = [status EXCEPT ![t] = IF Len(stack[t]) = 1 THEN "run" ELSE "panic"]
            /\ UNCHANGED crashed
    /\ UNCHANGED <<registry, tables, buildStack, ret, err, ops, calls, hist>>

\* ------------------------------------------------------------------ registration

\* c.mu.Lock(); defer c.mu.Unlock(): the first two lines of every registration
\* operation.
Lock(t) ==
    /\ ~crashed /\ status[t] = "run" /\ stack[t] # <<>>
    /\ Top(t).pc = "lock" /\ Top(t).fn # "make"
    /\ mu = 0
    /\ mu' = t
    /\ Goto(t, [Top(t) EXCEPT !.deferUnlock = TRUE, !.pc = "body"])
    /\ UNCHANGED <<registry, tables, buildStack, ret, status, err, ops, crashed, calls, hist>>

ForgetHistory(key) ==
    /\ prev' = [prev EXCEPT ![key] = Absent]
    /\ prevA' = [prevA EXCEPT ![key] = Absent]
    /\ builds' = [builds EXCEPT ![key] = 0]

\* bind: evict the cached instance, install the binding and, when an instance
\* was cached, drop the lock to rebuild and notify.
BindBody(t) ==
    /\ At(t, "bind", "body")
    /\ LET fr == Top(t)
           key == canonical(fr.abs)
           wasBound == instances[key] # Absent /\ instances[key] # Nil IN
       /\ instances' = [instances EXCEPT ![key] = Absent]
       /\ bindings' = [bindings EXCEPT ![key] = [factory |-> fr.f, singleton |-> fr.single]]
       /\ ForgetHistory(key)
       /\ mu' = 0
       /\ IF wasBound
          THEN stack' = Pushed(MarkStale(stack, key), t,
                               [fr EXCEPT !.key = key, !.was = TRUE, !.pc = "made",
                                          !.n0 = IF fr.f \in FreshFactories THEN calls[fr.f] ELSE 0],
                               Frame("make", "canonical", fr.abs))
          ELSE stack' = Popped(MarkStale(stack, key), t)
    /\ UNCHANGED <<registry, tags, aliases, extenders, contextual, reboundCallbacks, afterResolving,
                   buildStack, ret, status, err, ops, crashed, calls>>

\* bind: c.make(abstract) returned the rebuilt instance.
BindMade(t) ==
    /\ At(t, "bind", "made")
    /\ Goto(t, [Top(t) EXCEPT !.val = ret[t], !.pc = "rebound"])
    /\ UNCHANGED <<registry, mu, tables, buildStack, ret, status, err, ops, crashed, calls, hist>>

\* fireRebound: the callbacks of abstract are read under the read lock and
\* called with the instance.
FireRebound(t) ==
    /\ ~crashed /\ status[t] = "run" /\ stack[t] # <<>>
    /\ Top(t).pc = "rebound"
    /\ mu = 0
    /\ Goto(t, [Top(t) EXCEPT !.fired = reboundCallbacks[Top(t).abs], !.pc = "relock"])
    /\ UNCHANGED <<registry, mu, tables, buildStack, ret, status, err, ops, crashed, calls, hist>>

\* bind, Extend: c.mu.Lock() again, then the deferred Unlock as the call returns.
Relock(t) ==
    /\ ~crashed /\ status[t] = "run" /\ stack[t] # <<>>
    /\ Top(t).pc = "relock"
    /\ mu = 0
    /\ Leave(t)
    /\ UNCHANGED <<registry, mu, tables, buildStack, ret, status, err, ops, crashed, calls, hist>>

PreBuilt == Value("pre", 0)

\* Instance: drop the binding, store the instance, then fireRebound with the
\* write lock still held.
InstanceBody(t) ==
    /\ At(t, "instance", "body")
    /\ LET fr == Top(t)
           key == canonical(fr.abs) IN
       /\ bindings' = [bindings EXCEPT ![key] = NoBinding]
       /\ instances' = [instances EXCEPT ![key] = fr.val]
       /\ ForgetHistory(key)
       /\ stack' = SetTop(MarkStale(stack, key), t, [fr EXCEPT !.key = key, !.pc = "rebound"])
    /\ UNCHANGED <<registry, tags, mu, aliases, extenders, contextual, reboundCallbacks, afterResolving,
                   buildStack, ret, status, err, ops, crashed, calls>>

\* Alias without the check for a self alias.
AliasBody_NoCheck(t) ==
    /\ At(t, "alias", "body")
    /\ aliases' = [aliases EXCEPT ![Top(t).key] = canonical(Top(t).abs)]
    /\ mu' = 0
    /\ Leave(t)
    /\ UNCHANGED <<registry, tags, bindings, instances, extenders, contextual, reboundCallbacks,
                   afterResolving, buildStack, ret, status, err, ops, crashed, calls, hist>>

\* Alias: a self alias panics; otherwise alias maps to the canonical key.
AliasBody(t) ==
    /\ At(t, "alias", "body")
    /\ LET fr == Top(t) IN
       IF fr.abs = fr.key
       THEN /\ Panic(t, "selfalias")
            /\ UNCHANGED <<mu, aliases, stack>>
       ELSE /\ aliases' = [aliases EXCEPT ![fr.key] = canonical(fr.abs)]
            /\ mu' = 0
            /\ Leave(t)
            /\ UNCHANGED <<status, err>>
    /\ UNCHANGED <<registry, tags, bindings, instances, extenders, contextual, reboundCallbacks,
                   afterResolving, buildStack, ret, ops, crashed, calls, hist>>

\* Extend: append the extender; a cached instance is re-wrapped in place and
\* the lock dropped to notify.
ExtendBody(t) ==
    /\ At(t, "extend", "body")
    /\ LET fr == Top(t)
           key == canonical(fr.abs)
           exts == Append(extenders[key], fr.f)
           extended == ApplyFrom(exts, 1, instances[key]) IN
       /\ extenders' = [extenders EXCEPT ![key] = exts]
       /\ prevA' = [prevA EXCEPT ![key] = Absent]
       /\ mu' = 0
       /\ IF instances[key] # Absent
          THEN /\ instances' = [instances EXCEPT ![key] = extended]
               /\ Goto(t, [fr EXCEPT !.key = key, !.was = TRUE, !.val = extended,
                                     !.pc = "rebound"])
          ELSE /\ Leave(t)
               /\ UNCHANGED instances
    /\ UNCHANGED <<registry, tags, bindings, aliases, contextual, reboundCallbacks, afterResolving,
                   buildStack, ret, status, err, ops, crashed, calls, prev, builds>>

\* Forget: delete the binding and the instance of the key.
ForgetBody(t) ==
    /\ At(t, "forget", "body")
    /\ LET key == canonical(Top(t).abs) IN
       /\ bindings' = [bindings EXCEPT ![key] = NoBinding]
       /\ instances' = [instances EXCEPT ![key] = Absent]
       /\ ForgetHistory(key)
       /\ stack' = Popped(MarkStale(stack, key), t)
    /\ mu' = 0
    /\ UNCHANGED <<registry, tags, aliases, extenders, contextual, reboundCallbacks, afterResolving,
                   buildStack, ret, status, err, ops, crashed, calls>>

RECURSIVE MarkAllStale(_, _)
MarkAllStale(st, keys) ==
    IF keys = {} THEN st
    ELSE LET k == CHOOSE x \in keys : TRUE IN MarkAllStale(MarkStale(st, k), keys \ {k})

\* Flush: fresh binding, instance, alias, extender, tag and contextual tables.
FlushBody(t) ==
    /\ At(t, "flush", "body")
    /\ bindings' = [k \in Names |-> NoBinding]
    /\ instances' = [k \in Names |-> Absent]
    /\ aliases' = [k \in Names |-> NoName]
    /\ extenders' = [k \in Names |-> <<>>]
    /\ tags' = [g \in Tags |-> <<>>]
    /\ contextual' = [k \in Names |-> [d \in Names |-> NoFactory]]
    /\ prev' = [k \in Names |-> Absent]
    /\ prevA' = [k \in Names |-> Absent]
    /\ builds' = [k \in Names |-> 0]
    /\ stack' = Popped(MarkAllStale(stack, Names), t)
    /\ mu' = 0
    /\ UNCHANGED <<registry, reboundCallbacks, afterResolving, buildStack, ret, status, err,
                   ops, crashed, calls>>

\* ContextualBuilder.Give: contextual[concrete][needs] = factory.
GiveBody(t) ==
    /\ At(t, "give", "body")
    /\ LET fr == Top(t) IN
       contextual' = [contextual EXCEPT ![fr.caller][fr.abs] = fr.f]
    /\ mu' = 0
    /\ Leave(t)
    /\ UNCHANGED <<registry, tags, bindings, instances, aliases, extenders, reboundCallbacks,
                   afterResolving, buildStack, ret, status, err, ops, crashed, calls, hist>>

\* Rebinding: the callback is appended under the name it was given.
RebindingBody(t) ==
    /\ At(t, "rebinding", "body")
    /\ reboundCallbacks' = [reboundCallbacks EXCEPT ![Top(t).abs] = Append(@, Top(t).f)]
    /\ mu' = 0
    /\ Leave(t)
    /\ UNCHANGED <<registry, tags, bindings, instances, aliases, extenders, contextual, afterResolving,
                   buildStack, ret, status, err, ops, crashed, calls, hist>>

\* AfterResolving: the callback is appended to the list.
AfterResolvingBody(t) ==
    /\ At(t, "afterResolving", "body")
    /\ afterResolving' = Append(afterResolving, Top(t).f)
    /\ mu' = 0
    /\ Leave(t)
    /\ UNCHANGED <<registry, tags, bindings, instances, aliases, extenders, contextual, reboundCallbacks,
                   buildStack, ret, status, err, ops, crashed, calls, hist>>

\* Tag: c.tags[tag] = append(c.tags[tag], abstracts...).
TagBody(t) ==
    /\ At(t, "tag", "body")
    /\ tags' = [tags EXCEPT ![Top(t).tag] = @ \o Top(t).range]
    /\ mu' = 0
    /\ Leave(t)
    /\ UNCHANGED <<registry, bindings, instances, aliases, extenders, contextual,
                   reboundCallbacks, afterResolving, buildStack, ret, status, err, ops,
                   crashed, calls, hist>>

\* Tagged: abstracts := c.tags[tag] under the read lock.
TaggedRead(t) ==
    /\ At(t, "tagged", "read")
    /\ mu = 0
    /\ Goto(t, [Top(t) EXCEPT !.range = tags[Top(t).tag], !.i = 1, !.result = <<>>,
                              !.pc = "loop"])
    /\ UNCHANGED <<registry, mu, tables, buildStack, ret, status, err, ops, crashed, calls, hist>>

\* Tagged: for _, abs := range abstracts { ... c.make(abs) ... }.
TaggedLoop(t) ==
    /\ At(t, "tagged", "loop")
    /\ LET fr == Top(t) IN
       IF fr.i <= Len(fr.range)
       THEN Call(t, [fr EXCEPT !.pc = "made"], Frame("make", "canonical", fr.range[fr.i]))
       ELSE Goto(t, [fr EXCEPT !.pc = "ret"])
    /\ UNCHANGED <<registry, mu, tables, buildStack, ret, status, err, ops, crashed, calls, hist>>

\* Tagged that keeps one copy of each value.
TaggedMade_NoDuplicates(t) ==
    /\ At(t, "tagged", "made")
    /\ LET fr == Top(t)
           seen == \E j \in 1..Len(fr.result) : fr.result[j] = ret[t] IN
       Goto(t, [fr EXCEPT !.result = IF seen THEN @ ELSE Append(@, ret[t]),
                          !.i = @ + 1, !.pc = "loop"])
    /\ UNCHANGED <<registry, mu, tables, buildStack, ret, status, err, ops, crashed, calls, hist>>

\* Tagged: result = append(result, <what make returned>).
TaggedMade(t) ==
    /\ At(t, "tagged", "made")
    /\ Goto(t, [Top(t) EXCEPT !.result = Append(@, ret[t]), !.i = @ + 1, !.pc = "loop"])
    /\ UNCHANGED <<registry, mu, tables, buildStack, ret, status, err, ops, crashed, calls, hist>>

\* Tagged: return result.
TaggedReturn(t) ==
    /\ At(t, "tagged", "ret")
    /\ Leave(t)
    /\ UNCHANGED <<registry, mu, tables, buildStack, ret, status, err, ops, crashed, calls, hist>>

\* The dynamic type of a value: that of the factory that allocated it; nil has
\* none.  Zero is the zero value of the type asked for.
TypeOf(v) == IF v = Nil THEN NoName ELSE v.src
Zero == Value("zero", 0)

\* MustResolve: instance := c.Make(abstract).
MustResolveCall(t) ==
    /\ At(t, "mustResolve", "call")
    /\ Call(t, [Top(t) EXCEPT !.pc = "assert"], Frame("make", "canonical", Top(t).abs))
    /\ UNCHANGED <<registry, mu, tables, buildStack, ret, status, err, ops, crashed, calls, hist>>

\* MustResolve: typed, ok := instance.(T).
MustResolveAssert(t) ==
    /\ At(t, "mustResolve", "assert")
    /\ LET fr == Top(t)
           ok == TypeOf(ret[t]) = fr.typ IN
       Goto(t, [fr EXCEPT !.ok = ok, !.val = IF ok THEN ret[t] ELSE Zero, !.pc = "ret"])
    /\ UNCHANGED <<registry, mu, tables, buildStack, ret, status, err, ops, crashed, calls, hist>>

\* MustResolve: return typed, ok.
MustResolveReturn(t) ==
    /\ At(t, "mustResolve", "ret")
    /\ Leave(t)
    /\ UNCHANGED <<registry, mu, tables, buildStack, ret, status, err, ops, crashed, calls, hist>>

\* Bound: the canonical key has a binding or an instance.
Bound(abstract) ==
    LET key == canonical(abstract) IN
    bindings[key] # NoBinding \/ instances[key] # Absent

\* Resolved: the canonical key has an instance.
Resolved(abstract) == instances[canonical(abstract)] # Absent

BindFrame(abstract, factory, singleton) ==
    [Frame("bind", "lock", abstract) EXCEPT !.f = factory, !.single = singleton]

\* ------------------------------------------------------------------ providers

container == <<mu, tables, buildStack>>

ProviderFrame(fn, p) == [Frame(fn, "body", NoName) EXCEPT !.p = p]

\* ProviderRegistry.Register: a registered provider is ignored; a deferred one
\* is recorded for each abstract it provides; an eager one is registered now.
RegistryRegister(t) ==
    /\ At(t, "regRegister", "start")
    /\ LET fr == Top(t)
           p == fr.p IN
       IF registered[p]
       THEN /\ Leave(t)
            /\ UNCHANGED <<registered, deferred>>
       ELSE /\ registered' = [registered EXCEPT ![p] = TRUE]
            /\ IF IsDeferred(p)
               THEN /\ deferred' = [k \in Names |->
                         IF \E i \in 1..Len(Provides(p)) : Provides(p)[i] = k
                         THEN p ELSE deferred[k]]
                    /\ Goto(t, [fr EXCEPT !.pc = "intercept", !.i = 1])
               ELSE /\ Call(t, [fr EXCEPT !.pc = "registered"], ProviderFrame("provRegister", p))
                    /\ UNCHANGED deferred
    /\ UNCHANGED <<container, ret, status, err, ops, crashed, calls, hist,
                   eager, booted, regCalls, bootCalls, regLog, bootLog>>

\* interceptDeferred: Bind a lazy closure for each provided abstract.
InterceptDeferred(t) ==
    /\ At(t, "regRegister", "intercept")
    /\ LET fr == Top(t)
           provided == Provides(fr.p) IN
       IF fr.i <= Len(provided)
       THEN Call(t, [fr EXCEPT !.i = fr.i + 1],
                 BindFrame(provided[fr.i], LazyFactory[provided[fr.i]], FALSE))
       ELSE Leave(t)
    /\ UNCHANGED <<container, ret, status, err, ops, crashed, calls, hist, registry>>

\* ProviderRegistry.Register that never boots a late provider.
RegistryRegisterEager_NoBoot(t) ==
    /\ At(t, "regRegister", "registered")
    /\ eager' = Append(eager, Top(t).p)
    /\ Goto(t, [Top(t) EXCEPT !.pc = "done"])
    /\ UNCHANGED <<container, ret, status, err, ops, crashed, calls, hist,
                   deferred, booted, registered, regCalls, bootCalls, regLog, bootLog>>

\* ProviderRegistry.Register: the provider's Register returned; it joins the
\* eager list and, in a booted registry, is booted at once.
RegistryRegisterEager(t) ==
    /\ At(t, "regRegister", "registered")
    /\ LET fr == Top(t) IN
       /\ eager' = Append(eager, fr.p)
       /\ IF booted
          THEN Call(t, [fr EXCEPT !.pc = "done", !.was = TRUE], ProviderFrame("provBoot", fr.p))
          ELSE Goto(t, [fr EXCEPT !.pc = "done"])
    /\ UNCHANGED <<container, ret, status, err, ops, crashed, calls, hist,
                   deferred, booted, registered, regCalls, bootCalls, regLog, bootLog>>

RegistryRegisterDone(t) ==
    /\ At(t, "regRegister", "done")
    /\ Leave(t)
    /\ UNCHANGED <<container, ret, status, err, ops, crashed, calls, hist, registry>>

\* A provider's Register: it binds its services into the container.
ProviderRegister(t) ==
    /\ At(t, "provRegister", "body")
    /\ LET fr == Top(t)
           b == Registers(fr.p)[1] IN
       /\ regCalls' = [regCalls EXCEPT ![fr.p] = @ + 1]
       /\ regLog' = Append(regLog, fr.p)
       /\ Call(t, [fr EXCEPT !.pc = "binds", !.i = 2], BindFrame(b.abs, b.f, b.single))
    /\ UNCHANGED <<container, ret, status, err, ops, crashed, calls, hist,
                   eager, deferred, booted, registered, bootCalls, bootLog>>

ProviderRegisterBinds(t) ==
    /\ At(t, "provRegister", "binds")
    /\ LET fr == Top(t)
           bs == Registers(fr.p) IN
       IF fr.i <= Len(bs)
       THEN Call(t, [fr EXCEPT !.i = fr.i + 1],
                 BindFrame(bs[fr.i].abs, bs[fr.i].f, bs[fr.i].single))
       ELSE Leave(t)
    /\ UNCHANGED <<container, ret, status, err, ops, crashed, calls, hist, registry>>

\* A provider's Boot.
ProviderBoot(t) ==
    /\ At(t, "provBoot", "body")
    /\ bootCalls' = [bootCalls EXCEPT ![Top(t).p] = @ + 1]
    /\ bootLog' = Append(bootLog, Top(t).p)
    /\ IF BootOps(Top(t).p) = <<>>
       THEN Leave(t)
       ELSE Goto(t, [Top(t) EXCEPT !.pc = "boots", !.i = 1])
    /\ UNCHANGED <<container, ret, status, err, ops, crashed, calls, hist,
                   eager, deferred, booted, registered, regCalls, regLog>>

\* A provider's Boot: its calls on the registry, one after the other.
ProviderBootOps(t) ==
    /\ At(t, "provBoot", "boots")
    /\ LET fr == Top(t)
           todo == BootOps(fr.p) IN
       IF fr.i <= Len(todo)
       THEN Call(t, [fr EXCEPT !.i = fr.i + 1],
                 IF todo[fr.i].op = "register"
                 THEN [Frame("regRegister", "start", NoName) EXCEPT !.p = todo[fr.i].p]
                 ELSE Frame("regBoot", "start", NoName))
       ELSE Leave(t)
    /\ UNCHANGED <<container, ret, status, err, ops, crashed, calls, hist, registry>>

\* ProviderRegistry.Boot without the check of r.booted.
RegistryBoot_NoGuard(t) ==
    /\ At(t, "regBoot", "start")
    /\ booted' = TRUE
    /\ Goto(t, [Top(t) EXCEPT !.pc = "loop", !.i = 1, !.range = eager])
    /\ UNCHANGED <<container, ret, status, err, ops, crashed, calls, hist,
                   eager, deferred, registered, regCalls, bootCalls, regLog, bootLog>>

\* ProviderRegistry.Boot: a booted registry returns; otherwise it is marked
\* booted and the eager list is ranged over.
RegistryBoot(t) ==
    /\ At(t, "regBoot", "start")
    /\ IF booted
       THEN /\ Leave(t)
            /\ UNCHANGED booted
       ELSE /\ booted' = TRUE
            /\ Goto(t, [Top(t) EXCEPT !.pc = "loop", !.i = 1, !.range = eager])
    /\ UNCHANGED <<container, ret, status, err, ops, crashed, calls, hist,
                   eager, deferred, registered, regCalls, bootCalls, regLog, bootLog>>

\* ProviderRegistry.Boot ranging over the eager list last to first.
RegistryBootLoop_Backwards(t) ==
    /\ At(t, "regBoot", "loop")
    /\ LET fr == Top(t) IN
       IF fr.i <= Len(fr.range)
       THEN Call(t, [fr EXCEPT !.i = fr.i + 1],
                 ProviderFrame("provBoot", fr.range[Len(fr.range) + 1 - fr.i]))
       ELSE Leave(t)
    /\ UNCHANGED <<container, ret, status, err, ops, crashed, calls, hist, registry>>

\* ProviderRegistry.Boot ranging over the eager list as it is at each turn.
RegistryBootLoop_Live(t) ==
    /\ At(t, "regBoot", "loop")
    /\ LET fr == Top(t) IN
       IF fr.i <= Len(eager)
       THEN Call(t, [fr EXCEPT !.i = fr.i + 1], ProviderFrame("provBoot", eager[fr.i]))
       ELSE Leave(t)
    /\ UNCHANGED <<container, ret, status, err, ops, crashed, calls, hist, registry>>

\* ProviderRegistry.Boot: for _, provider := range r.eager, the slice as it was
\* when the loop began.
RegistryBootLoop(t) ==
    /\ At(t, "regBoot", "loop")
    /\ LET fr == Top(t) IN
       IF fr.i <= Len(fr.range)
       THEN Call(t, [fr EXCEPT !.i = fr.i + 1], ProviderFrame("provBoot", fr.range[fr.i]))
       ELSE Leave(t)
    /\ UNCHANGED <<container, ret, status, err, ops, crashed, calls, hist, registry>>

\* The lazy closure called with the goroutine's stack used up: the runtime
\* stops the process.
StackOverflow(t) ==
    /\ At(t, "factory", "body")
    /\ Top(t).f \in LazyFactories
    /\ Len(stack[t]) >= MaxDepth
    /\ crashed' = TRUE
    /\ UNCHANGED <<registry, mu, tables, buildStack, stack, ret, status, err, ops, calls, hist>>

\* The lazy closure: register the provider for real when the guard says so.
LazyBody(t) ==
    /\ At(t, "factory", "body")
    /\ Top(t).f \in LazyFactories
    /\ Len(stack[t]) < MaxDepth
    /\ LET fr == Top(t)
           abs == LazyAbstract(fr.f) IN
       IF ~registered[LazyProvider(abs)] \/ deferred[abs] # NoProvider
       THEN Call(t, [fr EXCEPT !.abs = abs, !.pc = "lazyRegistered"],
                 ProviderFrame("provRegister", LazyProvider(abs)))
       ELSE Call(t, [fr EXCEPT !.abs = abs, !.pc = "lazyMade"],
                 Frame("make", "canonical", abs))
    /\ UNCHANGED <<container, ret, status, err, ops, crashed, calls, hist, registry>>

\* The lazy closure: delete(r.deferred, abs), then Boot in a booted registry.
LazyRegistered(t) ==
    /\ At(t, "factory", "lazyRegistered")
    /\ LET fr == Top(t) IN
       /\ deferred' = [deferred EXCEPT ![fr.abs] = NoProvider]
       /\ IF booted
          THEN Call(t, [fr EXCEPT !.pc = "lazyBooted"],
                    ProviderFrame("provBoot", LazyProvider(fr.abs)))
          ELSE Call(t, [fr EXCEPT !.pc = "lazyMade"], Frame("make", "canonical", fr.abs))
    /\ UNCHANGED <<container, ret, status, err, ops, crashed, calls, hist,
                   eager, booted, registered, regCalls, bootCalls, regLog, bootLog>>

\* The lazy closure: return c.Make(abs).
LazyBooted(t) ==
    /\ At(t, "factory", "lazyBooted")
    /\ Call(t, [Top(t) EXCEPT !.pc = "lazyMade"], Frame("make", "canonical", Top(t).abs))
    /\ UNCHANGED <<container, ret, status, err, ops, crashed, calls, hist, registry>>

LazyMade(t) ==
    /\ At(t, "factory", "lazyMade")
    /\ Return(t, ret[t])
    /\ UNCHANGED <<container, status, err, ops, crashed, calls, hist, registry>>

\* ------------------------------------------------------------------ top-level calls
\* The operations a goroutine issues from the top level, with their arguments
\* drawn from the given sets.

rest == <<registry, mu, tables, buildStack, ret, status, crashed, calls, hist>>

CallMake(t, abstracts) ==
    \E abstract \in abstracts :
        Start(t, Frame("make", "canonical", abstract)) /\ UNCHANGED rest

CallBind(t, abstracts, factories) ==
    \E abstract \in abstracts, f \in factories :
        Start(t, BindFrame(abstract, f, FALSE)) /\ UNCHANGED rest

CallSingleton(t, abstracts, factories) ==
    \E abstract \in abstracts, f \in factories :
        Start(t, BindFrame(abstract, f, TRUE)) /\ UNCHANGED rest

CallInstance(t, abstracts) ==
    \E abstract \in abstracts :
        Start(t, [Frame("instance", "lock", abstract) EXCEPT !.val = PreBuilt])
        /\ UNCHANGED rest

CallAlias(t, abstracts, aliasNames) ==
    \E abstract \in abstracts, alias \in aliasNames :
        Start(t, [Frame("alias", "lock", abstract) EXCEPT !.key = alias])
        /\ UNCHANGED rest

CallExtend(t, abstracts, exts) ==
    \E abstract \in abstracts, e \in exts :
        Start(t, [Frame("extend", "lock", abstract) EXCEPT !.f = e]) /\ UNCHANGED rest

CallForget(t, abstracts) ==
    \E abstract \in abstracts :
        Start(t, Frame("forget", "lock", abstract)) /\ UNCHANGED rest

CallFlush(t) == Start(t, Frame("flush", "lock", NoName)) /\ UNCHANGED rest

\* When(concrete).Needs(abstract).Give(factory) and GiveValue(value).
CallGive(t, concretes, abstracts, factories) ==
    \E concrete \in concretes, abstract \in abstracts, f \in factories :
        Start(t, [Frame("give", "lock", abstract) EXCEPT !.caller = concrete, !.f = f])
        /\ UNCHANGED rest

CallRebinding(t, abstracts, cbs) ==
    \E abstract \in abstracts, cb \in cbs :
        Start(t, [Frame("rebinding", "lock", abstract) EXCEPT !.f = cb]) /\ UNCHANGED rest

CallAfterResolving(t, cbs) ==
    \E cb \in cbs :
        Start(t, [Frame("afterResolving", "lock", NoName) EXCEPT !.f = cb])
        /\ UNCHANGED rest

CallTag(t, lists, tagNames) ==
    \E abstracts \in lists, tag \in tagNames :
        Start(t, [Frame("tag", "lock", NoName) EXCEPT !.tag = tag, !.range = abstracts])
        /\ UNCHANGED rest

CallTagged(t, tagNames) ==
    \E tag \in tagNames :
        Start(t, [Frame("tagged", "read", NoName) EXCEPT !.tag = tag]) /\ UNCHANGED rest

CallMustResolve(t, abstracts, types) ==
    \E abstract \in abstracts, T \in types :
        Start(t, [Frame("mustResolve", "call", abstract) EXCEPT !.typ = T])
        /\ UNCHANGED rest

CallRegister(t, providers) ==
    \E p \in providers :
        Start(t, [Frame("regRegister", "start", NoName) EXCEPT !.p = p]) /\ UNCHANGED rest

CallBoot(t) == Start(t, Frame("regBoot", "start", NoName)) /\ UNCHANGED rest

\* ------------------------------------------------------------------ specifications

\* The steps of a resolution, whatever started it.
MakeSteps(t) ==
    \/ MakeCanonical(t) \/ MakeCache(t) \/ MakeBuildStackTop(t) \/ MakeContextual(t)
    \/ MakeBinding(t) \/ RunFactoryPush(t) \/ RunFactoryPop(t) \/ RunFactoryExtenders(t)
    \/ RunFactoryApply(t) \/ RunFactoryLock(t) \/ RunFactoryStore(t)
    \/ FireAfterResolving(t) \/ MakeReturn(t) \/ Unwind(t)

\* One goroutine registering, decorating, overriding, aliasing and resolving a
\* consumer "cons" and its dependency "dep" (also known as "svc").
Next ==
    \/ CallMake(1, {"cons", "dep", "svc"})
    \/ CallSingleton(1, {"dep"}, {"fA", "fNil", "fPanic"})
    \/ CallBind(1, {"cons"}, {"fCons", "fPanic"})
    \/ CallBind(1, {"svc"}, {"fB"})
    \/ CallInstance(1, {"dep"})
    \/ CallAlias(1, {"dep"}, {"svc", "dep"})
    \/ CallGive(1, {"cons"}, {"dep", "svc"}, {"fValue"})
    \/ CallExtend(1, {"dep", "svc"}, {"e1"})
    \/ CallForget(1, {"dep"})
    \/ CallFlush(1)
    \/ CallRebinding(1, {"dep"}, {"cb1"})
    \/ CallAfterResolving(1, {"cb1"})
    \/ MakeSteps(1)
    \/ FactoryFresh(1) \/ FactoryConsCall(1) \/ FactoryConsReturn(1)
    \/ FactoryPanic(1) \/ FactoryConst(1)
    \/ Lock(1) \/ BindBody(1) \/ BindMade(1) \/ FireRebound(1) \/ Relock(1)
    \/ InstanceBody(1) \/ AliasBody(1) \/ ExtendBody(1) \/ ForgetBody(1) \/ FlushBody(1)
    \/ GiveBody(1) \/ RebindingBody(1) \/ AfterResolvingBody(1)

Spec == Init /\ [][Next]_vars

ProviderSteps(t) ==
    \/ RegistryRegister(t) \/ InterceptDeferred(t) \/ RegistryRegisterEager(t)
    \/ RegistryRegisterDone(t) \/ ProviderRegister(t) \/ ProviderRegisterBinds(t)
    \/ ProviderBoot(t) \/ RegistryBoot(t) \/ RegistryBootLoop(t)
    \/ LazyBody(t) \/ LazyRegistered(t) \/ LazyBooted(t) \/ LazyMade(t)

\* One goroutine registering providers, booting the registry and resolving what
\* the providers bind, in any order.
NextRegistry ==
    \/ CallRegister(1, {"pEager", "pEager2", "pDeferred"})
    \/ CallBoot(1)
    \/ CallMake(1, {"dep", "svc", "cons"})
    \/ CallSingleton(1, {"dep", "svc"}, {"fA"})
    \/ CallExtend(1, {"dep"}, {"e1"})
    \/ ProviderSteps(1)
    \/ MakeSteps(1)
    \/ FactoryFresh(1)
    \/ Lock(1) \/ BindBody(1) \/ BindMade(1) \/ FireRebound(1) \/ Relock(1)
    \/ ExtendBody(1)

SpecRegistry == Init /\ [][NextRegistry]_vars

\* One goroutine registering eager providers and booting the registry, one of
\* the providers registering another and booting the registry from its Boot.
NextBoot ==
    \/ CallRegister(1, {"pEager", "pBooter", "pLate"})
    \/ CallBoot(1)
    \/ RegistryRegister(1) \/ RegistryRegisterEager(1) \/ RegistryRegisterDone(1)
    \/ ProviderRegister(1) \/ ProviderRegisterBinds(1)
    \/ ProviderBoot(1) \/ ProviderBootOps(1)
    \/ RegistryBoot(1) \/ RegistryBootLoop(1)
    \/ Lock(1) \/ BindBody(1)

SpecBoot == Init /\ [][NextBoot]_vars

\* One goroutine tagging and resolving by tag a singleton "dep" and a transient
\* "svc", which it may decorate and register again meanwhile.
NextTags ==
    \/ CallSingleton(1, {"dep"}, {"fA"})
    \/ CallBind(1, {"svc"}, {"fB"})
    \/ CallExtend(1, {"svc"}, {"e1"})
    \/ CallTag(1, {<<"dep", "svc">>, <<"svc">>}, Tags)
    \/ CallTagged(1, Tags)
    \/ CallFlush(1)
    \/ MakeCanonical(1) \/ MakeCache(1) \/ MakeBuildStackTop(1) \/ MakeBinding(1)
    \/ RunFactoryPush(1) \/ RunFactoryPop(1) \/ RunFactoryExtenders(1)
    \/ RunFactoryApply(1) \/ RunFactoryLock(1) \/ RunFactoryStore(1)
    \/ FireAfterResolving(1) \/ MakeReturn(1) \/ Unwind(1)
    \/ FactoryFresh(1)
    \/ Lock(1) \/ BindBody(1) \/ BindMade(1) \/ FireRebound(1) \/ Relock(1)
    \/ ExtendBody(1) \/ FlushBody(1)
    \/ TagBody(1) \/ TaggedRead(1) \/ TaggedLoop(1) \/ TaggedMade(1) \/ TaggedReturn(1)

SpecTags == Init /\ [][NextTags]_vars

\* One goroutine retrieving "dep" as a value of the type fA allocates, while
\* "dep" is registered with that factory, with others, or not at all.
NextResolve ==
    \/ CallSingleton(1, {"dep"}, {"fA", "fNil"})
    \/ CallBind(1, {"dep"}, {"fB"})
    \/ CallForget(1, {"dep"})
    \/ CallMustResolve(1, {"dep"}, {"fA"})
    \/ MustResolveCall(1) \/ MustResolveAssert(1) \/ MustResolveReturn(1)
    \/ MakeCanonical(1) \/ MakeCache(1) \/ MakeBuildStackTop(1) \/ MakeBinding(1)
    \/ RunFactoryPush(1) \/ RunFactoryPop(1) \/ RunFactoryExtenders(1)
    \/ RunFactoryLock(1) \/ RunFactoryStore(1)
    \/ FireAfterResolving(1) \/ MakeReturn(1) \/ Unwind(1)
    \/ FactoryFresh(1) \/ FactoryConst(1)
    \/ Lock(1) \/ BindBody(1) \/ BindMade(1) \/ FireRebound(1) \/ Relock(1)
    \/ ForgetBody(1)

SpecResolve == Init /\ [][NextResolve]_vars

\* The container after its registration phase: two consumers "cons" and "svc"
\* whose factories resolve "dep", a transient "dep", and a contextual entry
\* giving "cons" its own "dep".
InitBuilds ==
    /\ mu = 0
    /\ bindings = [k \in Names |->
          IF k \in {"cons", "svc"} THEN [factory |-> "fCons", singleton |-> FALSE]
          ELSE IF k = "dep" THEN [factory |-> "fA", singleton |-> FALSE]
          ELSE NoBinding]
    /\ instances = [k \in Names |-> Absent]
    /\ aliases = [k \in Names |-> NoName]
    /\ extenders = [k \in Names |-> <<>>]
    /\ tags = [g \in Tags |-> <<>>]
    /\ contextual = [k \in Names |-> [d \in Names |->
          IF k = "cons" /\ d = "dep" THEN "fValue" ELSE NoFactory]]
    /\ reboundCallbacks = [k \in Names |-> <<>>]
    /\ afterResolving = <<>>
    /\ buildStack = <<>>
    /\ stack = [t \in Threads |-> <<>>]
    /\ ret = [t \in Threads |-> Absent]
    /\ status = [t \in Threads |-> "run"]
    /\ err = [t \in Threads |-> "none"]
    /\ ops = [t \in Threads |-> 0]
    /\ crashed = FALSE
    /\ calls = [f \in FreshFactories |-> 0]
    /\ prev = [k \in Names |-> Absent]
    /\ prevA = [k \in Names |-> Absent]
    /\ builds = [k \in Names |-> 0]
    /\ eager = <<>>
    /\ deferred = [k \in Names |-> NoProvider]
    /\ booted = FALSE
    /\ registered = [p \in Providers |-> FALSE]
    /\ regCalls = [p \in Providers |-> 0]
    /\ bootCalls = [p \in Providers |-> 0]
    /\ regLog = <<>>
    /\ bootLog = <<>>

\* Two goroutines, one building "cons" and the other "svc", on that container.
NextBuilds ==
    \/ ops[1] < MaxBuilds /\ CallMake(1, {"cons"})
    \/ ops[2] < MaxBuilds /\ CallMake(2, {"svc"})
    \/ \E t \in Threads :
        \/ MakeCanonical(t) \/ MakeCache(t) \/ MakeBuildStackTop(t) \/ MakeContextual(t)
        \/ MakeBinding(t)
        \/ RunFactoryPushRead(t) \/ RunFactoryPushWrite(t)
        \/ RunFactoryPopRead(t) \/ RunFactoryPopWrite(t)
        \/ RunFactoryExtenders(t) \/ FireAfterResolving(t) \/ MakeReturn(t)
        \/ FactoryFresh(t) \/ FactoryConsCall(t) \/ FactoryConsReturn(t) \/ FactoryConst(t)
        \/ Unwind(t)

SpecBuilds == InitBuilds /\ [][NextBuilds]_vars

\* t reads a map with no lock held (c.aliases in canonical, c.extenders in
\* applyExtenders) while u, holding the write lock, is about to write it.
RacingOn(t, u) ==
    /\ t # u
    /\ \/ At(t, "make", "canonical") /\ At(u, "alias", "body")
       \/ At(t, "make", "apply") /\ At(u, "extend", "body")

\* The runtime may stop the process on a map read concurrent with a map write.
RaceFault(t) ==
    /\ \E u \in Threads : RacingOn(t, u)
    /\ crashed' = TRUE
    /\ UNCHANGED <<registry, mu, tables, buildStack, stack, ret, status, err, ops, calls, hist>>

\* One goroutine registering, aliasing and decorating "dep" while another
\* resolves it under its alias "svc".
NextShared ==
    \/ CallSingleton(1, {"dep"}, {"fA"})
    \/ CallAlias(1, {"dep"}, {"svc"})
    \/ CallExtend(1, {"dep"}, {"e1"})
    \/ ops[2] < MaxResolves /\ CallMake(2, {"svc"})
    \/ \E t \in Threads :
        \/ MakeCanonical(t) \/ MakeCache(t) \/ MakeBuildStackTop(t) \/ MakeContextual(t)
        \/ MakeBinding(t)
        \/ RunFactoryPushRead(t) \/ RunFactoryPushWrite(t)
        \/ RunFactoryPopRead(t) \/ RunFactoryPopWrite(t)
        \/ RunFactoryExtenders(t) \/ RunFactoryApply(t) \/ RunFactoryLock(t)
        \/ RunFactoryStore(t) \/ FireAfterResolving(t) \/ MakeReturn(t)
        \/ FactoryFresh(t) \/ Unwind(t) \/ RaceFault(t)
        \/ Lock(t) \/ BindBody(t) \/ BindMade(t) \/ FireRebound(t) \/ Relock(t)
        \/ AliasBody(t) \/ ExtendBody(t)

SpecShared == Init /\ [][NextShared]_vars

\* One goroutine decorating a singleton "dep" and a transient "svc" with two
\* extenders, before and after it resolves them.
NextExtend ==
    \/ CallSingleton(1, {"dep"}, {"fA"})
    \/ CallBind(1, {"svc"}, {"fB"})
    \/ CallExtend(1, {"dep", "svc"}, {"e1", "e2"})
    \/ CallMake(1, {"dep", "svc"})
    \/ MakeCanonical(1) \/ MakeCache(1) \/ MakeBuildStackTop(1) \/ MakeBinding(1)
    \/ RunFactoryPush(1) \/ RunFactoryPop(1) \/ RunFactoryExtenders(1)
    \/ RunFactoryApply(1) \/ RunFactoryLock(1) \/ RunFactoryStore(1)
    \/ FireAfterResolving(1) \/ MakeReturn(1) \/ Unwind(1)
    \/ FactoryFresh(1)
    \/ Lock(1) \/ BindBody(1) \/ BindMade(1) \/ FireRebound(1) \/ Relock(1)
    \/ ExtendBody(1)

SpecExtend == Init /\ [][NextExtend]_vars

\* One goroutine registering a deferred provider that provides "cons" without
\* binding it, booting the registry, and resolving "cons" and "svc".
NextHollow ==
    \/ CallRegister(1, {"pHollow"})
    \/ CallBoot(1)
    \/ CallSingleton(1, {"svc"}, {"fB"})
    \/ CallMake(1, {"cons", "svc"})
    \/ MakeCanonical(1) \/ MakeCache(1) \/ MakeBuildStackTop(1) \/ MakeContextual(1)
    \/ MakeBinding(1) \/ RunFactoryPush(1) \/ RunFactoryPop(1) \/ RunFactoryExtenders(1)
    \/ RunFactoryLock(1) \/ RunFactoryStore(1) \/ FireAfterResolving(1)
    \/ MakeReturn(1) \/ Unwind(1)
    \/ RegistryRegister(1) \/ InterceptDeferred(1)
    \/ ProviderRegister(1) \/ ProviderRegisterBinds(1) \/ ProviderBoot(1)
    \/ RegistryBoot(1) \/ RegistryBootLoop(1)
    \/ LazyBody(1) \/ LazyRegistered(1) \/ LazyBooted(1) \/ StackOverflow(1)
    \/ FactoryFresh(1)
    \/ Lock(1) \/ BindBody(1) \/ BindMade(1) \/ FireRebound(1) \/ Relock(1)

SpecHollow == Init /\ [][NextHollow]_vars

\* One goroutine aliasing three names to one another in any order, and
\* resolving them, "dep" being bound.
NextAlias ==
    \/ CallAlias(1, {"cons", "dep", "svc"}, {"cons", "dep", "svc"})
    \/ CallBind(1, {"dep"}, {"fA"})
    \/ CallMake(1, {"cons", "dep", "svc"})
    \/ MakeCanonical(1) \/ MakeCache(1) \/ MakeBuildStackTop(1) \/ MakeBinding(1)
    \/ RunFactoryPush(1) \/ RunFactoryPop(1) \/ RunFactoryExtenders(1)
    \/ FireAfterResolving(1) \/ MakeReturn(1) \/ Unwind(1)
    \/ FactoryFresh(1)
    \/ Lock(1) \/ BindBody(1) \/ AliasBody(1)

SpecAlias == Init /\ [][NextAlias]_vars

\* Two goroutines resolving "dep", which a deferred provider provides; one of
\* them registers the provider and boots the registry.
NextDeferred ==
    \/ ops[1] <= MaxResolves /\ CallRegister(1, {"pDeferred"})
    \/ ops[1] <= MaxResolves /\ CallBoot(1)
    \/ ops[1] <= MaxResolves /\ CallMake(1, {"dep"})
    \/ ops[2] < MaxBuilds /\ CallMake(2, {"dep"})
    \/ \E t \in Threads :
        \/ MakeCanonical(t) \/ MakeCache(t) \/ MakeBuildStackTop(t) \/ MakeContextual(t)
        \/ MakeBinding(t) \/ RunFactoryPush(t) \/ RunFactoryPop(t) \/ RunFactoryExtenders(t)
        \/ RunFactoryLock(t) \/ RunFactoryStore(t) \/ FireAfterResolving(t)
        \/ MakeReturn(t) \/ Unwind(t)
        \/ RegistryRegister(t) \/ InterceptDeferred(t)
        \/ ProviderRegister(t) \/ ProviderRegisterBinds(t) \/ ProviderBoot(t)
        \/ RegistryBoot(t) \/ RegistryBootLoop(t)
        \/ LazyBody(t) \/ LazyRegistered(t) \/ LazyBooted(t) \/ LazyMade(t)
        \/ FactoryFresh(t)
        \/ Lock(t) \/ BindBody(t) \/ BindMade(t) \/ FireRebound(t) \/ Relock(t)

SpecDeferred == Init /\ [][NextDeferred]_vars

\* Two goroutines resolving a singleton that one of them registers.
NextConcurrent ==
    \/ CallSingleton(1, {"dep"}, {"fA"})
    \/ \E t \in Threads :
        \/ CallMake(t, {"dep"})
        \/ MakeCanonical(t) \/ MakeCache(t) \/ MakeBuildStackTop(t) \/ MakeContextual(t)
        \/ MakeBinding(t) \/ RunFactoryPush(t) \/ RunFactoryPop(t) \/ RunFactoryExtenders(t)
        \/ RunFactoryLock(t) \/ RunFactoryStore(t) \/ FireAfterResolving(t)
        \/ MakeReturn(t) \/ Unwind(t) \/ FactoryFresh(t)
        \/ Lock(t) \/ BindBody(t) \/ BindMade(t) \/ FireRebound(t) \/ Relock(t)

SpecConcurrent == Init /\ [][NextConcurrent]_vars

\* ------------------------------------------------------------------ observation

\* The goroutines whose resolution is about to return its value.
Returning == {t \in Threads : At(t, "make", "ret")}

\* The goroutines whose bind has rebuilt and notified.
Rebound == {t \in Threads : At(t, "bind", "relock")}

\* The key whose factory issued the call on top of t's stack: the innermost
\* key t is building, NoName at the top level.
Building(t) ==
    LET below == {i \in 1..(Len(stack[t]) - 1) :
                      stack[t][i].fn = "make" /\ stack[t][i].pc = "pop"} IN
    IF below = {} THEN NoName
    ELSE stack[t][CHOOSE i \in below : \A j \in below : j <= i].key

\* The keys t is building, outermost first.
RECURSIVE BuildsOf(_)
BuildsOf(st) ==
    IF st = <<>> THEN <<>>
    ELSE LET fr == st[Len(st)]
             front == BuildsOf(SubSeq(st, 1, Len(st) - 1)) IN
         IF fr.fn = "make" /\ fr.pc = "pop" THEN Append(front, fr.key) ELSE front

BoundSingleton(key) == bindings[key] # NoBinding /\ bindings[key].singleton

\* ------------------------------------------------------------------ claims

\* C1 (as stated): for a key bound via Singleton, a Make that follows another
\* Make of the key, with no Bind, Singleton, Instance, Forget or Flush of the key
\* since, returns the identical instance, the factory having run exactly once.
C1_SingletonSameInstance ==
    \A t \in Returning :
        LET fr == Top(t) IN
        (BoundSingleton(fr.key) /\ ~fr.stale /\ prev[fr.key] # Absent)
            => (fr.val = prev[fr.key] /\ builds[fr.key] = 1)

\* C1 (amended): the same, when there was no Extend of the key between the two
\* calls either and neither call was served by a contextual override.
C1_SingletonSameInstanceAmended ==
    \A t \in Returning :
        LET fr == Top(t) IN
        (BoundSingleton(fr.key) /\ ~fr.stale /\ ~fr.ctx /\ prevA[fr.key] # Absent)
            => (fr.val = prevA[fr.key] /\ builds[fr.key] = 1)

\* C1 witness: a second Make of a singleton key returns from the cache.
C1_Witness ==
    \E t \in Returning :
        LET fr == Top(t) IN
        /\ BoundSingleton(fr.key) /\ ~fr.stale /\ ~fr.ctx /\ fr.hit
        /\ prevA[fr.key] # Absent /\ prevA[fr.key].src = "fA"
        /\ calls["fA"] = 1

\* C2: a singleton's factory is invoked at most once per registration, however
\* the goroutines resolving it interleave, and every Make returns what the
\* previous one returned.
C2_ConcurrentExactlyOnce ==
    /\ \A k \in Names : BoundSingleton(k) => builds[k] <= 1
    /\ \A t \in Returning :
          LET fr == Top(t) IN
          (BoundSingleton(fr.key) /\ ~fr.stale /\ prev[fr.key] # Absent)
              => fr.val = prev[fr.key]

\* C3: the build stack holds exactly the keys under construction, so it is
\* empty whenever no build is in progress.
C3_BuildStackRestored ==
    (\A t \in Threads : status[t] = "run") => buildStack = BuildsOf(stack[1])

\* C4: a contextual entry (Consumer, Dep) serves a Make(Dep) without cached
\* instance exactly when Consumer is the innermost key the caller is building.
C4_ContextualScope ==
    \A t \in Returning :
        LET fr == Top(t) IN
        /\ fr.ctx => Building(t) = fr.caller
        /\ (~fr.hit /\ Building(t) # NoName
            /\ getContextual(Building(t), fr.abs) # NoFactory) => fr.ctx

\* C10: a Bind or Singleton that found a cached instance has invoked the new
\* factory once and called the Rebinding callbacks of the key with its value.
C10_ReboundNotifies ==
    \A t \in Rebound :
        LET fr == Top(t) IN
        /\ fr.fired = reboundCallbacks[fr.key]
        /\ fr.f \in FreshFactories => (calls[fr.f] = fr.n0 + 1 /\ fr.val.n = calls[fr.f])

\* C11: Extend on a key with a cached instance replaces that instance by the
\* decorator applied to it, runs no factory, and calls the Rebinding callbacks
\* of the key with the value now cached.
C11_ExtendDecoratesCached ==
    /\ [][(At(1, "extend", "body") /\ instances[canonical(Top(1).abs)] # Absent) =>
            LET k == canonical(Top(1).abs) IN
            /\ instances'[k] = Decorate(instances[k], Top(1).f)
            /\ calls' = calls]_vars
    /\ [](\A t \in Threads :
            At(t, "extend", "relock") =>
                /\ Top(t).fired = reboundCallbacks[Top(t).key]
                /\ Top(t).val = instances[Top(t).key])

\* C12: a name and the key its alias entry maps it to resolve alike: to the
\* same canonical key (one binding, one cached instance), with the same Bound
\* and Resolved, and with the same contextual override under every consumer.
C12_AliasSameResult ==
    \A b \in Names :
        aliases[b] # NoName =>
            LET a == aliases[b] IN
            /\ canonical(a) = canonical(b)
            /\ Bound(a) = Bound(b)
            /\ Resolved(a) = Resolved(b)
            /\ \A c \in Names : getContextual(c, a) = getContextual(c, b)

\* C13: Alias(key, key) changes no table and returns no value at any of its
\* steps, panics with the self-alias error once it has the lock, and has
\* released the lock when the caller has the panic.
SelfAliasing(t) ==
    /\ stack[t] # <<>> /\ stack[t][1].fn = "alias"
    /\ stack[t][1].abs = stack[t][1].key

C13_SelfAliasRejected ==
    /\ [][\A t \in Threads : SelfAliasing(t) => (tables' = tables /\ ret' = ret)]_vars
    /\ [][\A t \in Threads :
            (SelfAliasing(t) /\ At(t, "alias", "body"))
                => (status'[t] = "panic" /\ err'[t] = "selfalias")]_vars
    /\ [](\A t \in Threads :
            (stack[t] = <<>> /\ err[t] = "selfalias")
                => (mu = 0 /\ ~crashed /\ status[t] = "run"))

\* C13 witness: the caller has the self-alias panic and the lock is free.
C13_Witness ==
    /\ stack[1] = <<>> /\ err[1] = "selfalias" /\ status[1] = "run"
    /\ mu = 0 /\ ~crashed

\* C14: Make panics for an unregistered abstract only when the canonical key
\* has no instance and no binding; the panic and its unwinding change no table
\* and return nothing; and a Make that returns a value had a cached instance,
\* a binding, or a contextual entry of the consumer its caller is building.
C14_UnregisteredAbstract ==
    /\ [][\A t \in Threads :
            (status[t] = "run" /\ status'[t] = "panic" /\ err'[t] = "unregistered")
                => /\ At(t, "make", "binding")
                   /\ instances[Top(t).key] = Absent
                   /\ bindings[Top(t).key] = NoBinding
                   /\ tables' = tables /\ ret' = ret]_vars
    /\ [][\A t \in Threads :
            (status[t] = "panic" /\ err[t] = "unregistered")
                => (tables' = tables /\ ret' = ret)]_vars
    /\ [](\A t \in Returning :
            LET fr == Top(t) IN
            \/ fr.hit
            \/ ~fr.ctx /\ fr.f # NoFactory
            \/ fr.ctx /\ Building(t) = fr.caller)

\* C15: a Make of a key with a transient binding, unless a contextual entry of
\* the consumer being built serves it, returns the value of a factory run of
\* its own, the one after the run that served the previous Make of the key,
\* and leaves the key without cached instance.
C15_TransientAnew ==
    \A t \in Returning :
        LET fr == Top(t)
            b == bindings[fr.key] IN
        (b # NoBinding /\ ~b.singleton /\ b.factory \in FreshFactories /\ ~fr.stale
         /\ ~(fr.ctx /\ Building(t) = fr.caller))
            => /\ ~fr.hit /\ instances[fr.key] = Absent
               /\ fr.val.src = b.factory /\ fr.val.n = calls[b.factory]
               /\ (prev[fr.key] # Absent /\ prev[fr.key].src = b.factory)
                      => fr.val.n = prev[fr.key].n + 1

\* C17: Flush leaves the container registered under its own key and every
\* other key without binding and instance, and empties the alias, extender,
\* tag and contextual tables.
C17_FlushKeepsSelf ==
    [][At(1, "flush", "body") =>
        /\ instances'[ContainerKey] = Self
        /\ \A k \in Names \ {ContainerKey} :
              instances'[k] = Absent /\ bindings'[k] = NoBinding
        /\ \A k \in Names : aliases'[k] = NoName /\ extenders'[k] = <<>>
        /\ \A g \in Tags : tags'[g] = <<>>
        /\ \A c, k \in Names : contextual'[c][k] = NoFactory]_vars

\* C18: an Instance call that has stored its value has removed the binding,
\* made the key Bound and Resolved, and can go on to return.
C18_InstanceRegisters ==
    \A t \in Threads :
        (stack[t] # <<>> /\ Top(t).fn = "instance" /\ Top(t).pc = "rebound")
            => /\ instances[Top(t).key] = Top(t).val
               /\ bindings[Top(t).key] = NoBinding
               /\ Bound(Top(t).abs) /\ Resolved(Top(t).abs)
               /\ ENABLED FireRebound(t)

TransientsAfter(range, i, f) ==
    Cardinality({j \in (i + 1)..Len(range) :
        LET k == canonical(range[j]) IN
        instances[k] = Absent /\ bindings[k].factory = f})

C16_TaggedInOrder ==
    /\ [][At(1, "tag", "body") => tags'[Top(1).tag] = tags[Top(1).tag] \o Top(1).range]_vars
    /\ [](At(1, "tagged", "ret") =>
          LET fr == Top(1) IN
          /\ fr.range = tags[fr.tag]
          /\ Len(fr.result) = Len(fr.range)
          /\ \A i \in 1..Len(fr.range) :
                LET k == canonical(fr.range[i])
                    f == bindings[k].factory IN
                IF instances[k] # Absent
                THEN fr.result[i] = instances[k]
                ELSE fr.result[i] =
                        applyExtenders(k, Value(f, calls[f] - TransientsAfter(fr.range, i, f))))

\* C16 witness: Tagged returns four values for a tag registered twice, the
\* singleton's instance twice and two different values of the transient.
C16_Witness ==
    /\ At(1, "tagged", "ret")
    /\ Top(1).range = <<"dep", "svc", "dep", "svc">>
    /\ Len(Top(1).result) = 4
    /\ Top(1).result[1] = Top(1).result[3]
    /\ Top(1).result[2] # Top(1).result[4]

\* ------------------------------------------------------------------ provider claims

EagerProviders == {p \in Providers : ~IsDeferred(p)}
DeferredProviders == {p \in Providers : IsDeferred(p)}
TimesIn(list, p) == Cardinality({i \in 1..Len(list) : list[i] = p})

\* C5: a deferred provider's Register executes at most once, whatever keys of
\* its Provides() set are resolved.
C5_DeferredRegisterOnce == \A p \in DeferredProviders : regCalls[p] <= 1

\* C6: a deferred provider's Register runs only inside a Make issued by the
\* caller, and the Make that ran it returns the value its binding produced:
\* the singleton now cached for the key.
C6_DeferredOnFirstMake ==
    \A t \in Threads :
        /\ (stack[t] # <<>> /\ Top(t).fn = "provRegister" /\ IsDeferred(Top(t).p))
              => stack[t][1].fn = "make"
        /\ (At(t, "make", "ret") /\ Top(t).f \in LazyFactories /\ Len(stack[t]) = 1)
              => Top(t).val = instances[Top(t).key]

\* C7: an eager provider's Boot runs at most once, not before the registry is
\* booted, and exactly once when a booted registry is at rest; so a second
\* Boot() boots nobody.
C7_BootOncePerProvider ==
    \A p \in EagerProviders :
        /\ bootCalls[p] <= 1
        /\ ~booted => bootCalls[p] = 0
        /\ (booted /\ TimesIn(eager, p) > 0 /\ \A t \in Threads : Idle(t))
              => bootCalls[p] = 1

\* C7 witness: Boot() is called again on a booted registry whose eager
\* providers have been booted.
C7_Witness ==
    /\ At(1, "regBoot", "start") /\ booted
    /\ bootCalls["pEager"] = 1 /\ bootCalls["pEager2"] = 1

\* C8: however often Register(provider) is called, those calls run the
\* provider's Register at most once (when one of them runs it, it has not run
\* before) and the provider is in the eager list at most once.
C8_RegisteredOnce ==
    /\ \A p \in Providers : TimesIn(eager, p) <= 1
    /\ \A t \in Threads :
          (At(t, "provRegister", "body") /\ stack[t][1].fn = "regRegister"
           /\ stack[t][1].p = Top(t).p)
              => regCalls[Top(t).p] = 0

\* C9: Register of an eager provider on a booted registry has run the provider's
\* Register, then its Boot, once each, when it returns.
C9_LateRegisterBoots ==
    \A t \in Threads :
        /\ (At(t, "regRegister", "done") /\ booted)
              => (Top(t).was /\ regCalls[Top(t).p] = 1 /\ bootCalls[Top(t).p] = 1)
        /\ (At(t, "provBoot", "body") /\ Len(stack[t]) > 1
            /\ stack[t][Len(stack[t]) - 1].fn = "regRegister")
              => (regCalls[Top(t).p] = 1 /\ bootCalls[Top(t).p] = 0)

\* C9 witness: a late Register is about to return.
C9_Witness ==
    /\ At(1, "regRegister", "done") /\ booted /\ Top(1).p = "pEager"
    /\ bootCalls["pEager"] = 1

\* C21: no MustResolve call has a panic in flight, and a call about to return
\* gives (value, true) when what Make returned has the type asked for and
\* (zero value, false) otherwise.
C21_MustResolveNeverPanics ==
    \A t \in Threads :
        /\ ~(stack[t] # <<>> /\ stack[t][1].fn = "mustResolve" /\ status[t] = "panic")
        /\ At(t, "mustResolve", "ret") =>
              LET fr == Top(t) IN
              /\ fr.ok = (TypeOf(ret[t]) = fr.typ)
              /\ fr.val = IF fr.ok THEN ret[t] ELSE Zero

\* The keys t is building, read off its own call stack.
OwnBuilding(t) ==
    LET own == BuildsOf(stack[t]) IN
    IF own = <<>> THEN NoName ELSE own[Len(own)]

\* C22: a Make issued from a factory is served by a contextual factory exactly
\* when the key its own goroutine is building has a contextual entry for the
\* abstract, and no build of a goroutine fails on the build stack.
C22_ContextualPerGoroutine ==
    /\ \A t \in Returning :
          (Len(stack[t]) > 1 /\ ~Top(t).hit) =>
              (Top(t).ctx <=> getContextual(OwnBuilding(t), Top(t).abs) # NoFactory)
    /\ \A t \in Threads : err[t] # "bounds"

\* C23: no goroutine is at an unlocked read of the alias table or of the
\* extender table while another is inside the Alias or Extend that writes it,
\* and the runtime never stops the process for such a read.
C23_ReadsExcludeMutations ==
    /\ \A t, u \in Threads : ~RacingOn(t, u)
    /\ ~crashed

\* The next step of t calls a function the user supplied: a factory, the
\* extenders (from runFactory, or from Extend on a cached instance), the
\* AfterResolving callbacks, or the Rebinding callbacks after bind or Extend.
InvokesUserFunction(t) ==
    \/ At(t, "factory", "body")
    \/ At(t, "make", "apply")
    \/ At(t, "make", "after") /\ afterResolving # <<>>
    \/ At(t, "extend", "body") /\ instances[canonical(Top(t).abs)] # Absent
    \/ /\ At(t, "bind", "rebound") \/ At(t, "extend", "rebound")
       /\ reboundCallbacks[Top(t).abs] # <<>>

\* C24: a goroutine about to call a user-supplied function does not hold the
\* write lock.
C24_NoUserCodeUnderLock ==
    \A t \in Threads : InvokesUserFunction(t) => mu # t

\* C25: Instance does not reach its rebind notification, which takes the read
\* lock, while it holds the write lock.
C25_InstanceReturns ==
    \A t \in Threads :
        (stack[t] # <<>> /\ Top(t).fn = "instance" /\ Top(t).pc = "rebound") => mu # t

\* C26: the lock is never unlocked while nobody holds it, and it is free
\* whenever no call is in progress.
C26_UnlockOnlyByHolder ==
    /\ ~crashed
    /\ (\A t \in Threads : stack[t] = <<>>) => mu = 0

\* C27: no key has a binding and an instance at once.
C27_BindingXorInstance ==
    \A k \in Names : ~(bindings[k] # NoBinding /\ instances[k] # Absent)

\* C28: a name with an alias entry is a key of no other table.
C28_TablesCanonical ==
    \A k \in Names :
        aliases[k] # NoName =>
            /\ bindings[k] = NoBinding /\ instances[k] = Absent
            /\ extenders[k] = <<>> /\ reboundCallbacks[k] = <<>>
            /\ \A c \in Names : contextual[c][k] = NoFactory /\ contextual[k][c] = NoFactory

\* C29: a Make that finds an instance cached for its key returns it at the next
\* step, no factory called, whatever is being built; so a Make served by a
\* contextual factory found no instance cached.
C29_CachedBeatsContextual ==
    /\ [][\A t \in Threads :
            (At(t, "make", "cache") /\ instances[Top(t).key] # Absent
             /\ stack'[t] # stack[t])
                => /\ Len(stack'[t]) = Len(stack[t])
                   /\ stack'[t][Len(stack[t])].pc = "ret"
                   /\ stack'[t][Len(stack[t])].val = instances[Top(t).key]
                   /\ ~stack'[t][Len(stack[t])].ctx
                   /\ calls' = calls]_vars
    /\ [](\A t \in Returning : Top(t).ctx => instances[Top(t).key] = Absent)

\* C29 witness: inside the build of "cons", which has a contextual entry for
\* the key, a Make returns the cached instance.
C29_Witness ==
    \E t \in Returning :
        /\ Top(t).hit /\ Top(t).val = instances[Top(t).key]
        /\ Building(t) = "cons" /\ buildStack = <<"cons">>
        /\ getContextual("cons", Top(t).abs) # NoFactory

\* C30: the steps of a Make served by a contextual factory leave the instance
\* cache as it is, and a top-level Make of a key whose previous Make returned
\* a contextual value is not served by a contextual factory.
C30_ContextualNotCached ==
    /\ [][\A t \in Threads :
            (stack[t] # <<>> /\ Top(t).fn = "make" /\ Top(t).ctx)
                => instances' = instances]_vars
    /\ [](\A t \in Returning :
            (Len(stack[t]) = 1 /\ prev[Top(t).key] = GivenValue) => ~Top(t).ctx)

\* What a factory returned, before any extender had it.
Raw(v) == [v EXCEPT !.ext = <<>>]

\* C31: a Make that ran the factory of its key returns the factory's value with
\* the extenders registered for the key applied to it in registration order,
\* each to the output of the one before; for a singleton that value is the one
\* cached.
C31_ExtendersInOrder ==
    \A t \in Returning :
        LET fr == Top(t) IN
        ~fr.hit =>
            /\ Raw(fr.val) = Value(fr.f, calls[fr.f])
            /\ fr.val = ApplyFrom(extenders[fr.key], 1, Raw(fr.val))
            /\ fr.single => instances[fr.key] = fr.val

\* C31 witness: a Make of the singleton returns its fresh value decorated by
\* the two extenders in the order of their registration, and has cached it.
C31_Witness ==
    \E t \in Returning :
        /\ ~Top(t).hit /\ Top(t).single /\ Top(t).val.src = "fA"
        /\ Top(t).val.ext = <<"e1", "e2">>
        /\ extenders[Top(t).key] = <<"e1", "e2">>
        /\ instances[Top(t).key] = Top(t).val

\* C32: the cached instance of a singleton key is its factory's value with
\* each extender registered for the key applied once, in registration order.
C32_CachedExtendedOnce ==
    \A k \in Names :
        (BoundSingleton(k) /\ instances[k] # Absent)
            => instances[k] = ApplyFrom(extenders[k], 1, Raw(instances[k]))

\* C33: with a booted registry at rest, every provider whose Register has run
\* has had its Boot run exactly once, a deferred provider activated before
\* Boot() included.
C33_RegisteredIsBooted ==
    (booted /\ \A t \in Threads : Idle(t)) =>
        \A p \in Providers : regCalls[p] > 0 => bootCalls[p] = 1

\* The eager providers of a list, in the list's order.
RECURSIVE EagerOf(_)
EagerOf(list) ==
    IF list = <<>> THEN <<>>
    ELSE LET front == EagerOf(SubSeq(list, 1, Len(list) - 1))
             p == list[Len(list)] IN
         IF IsDeferred(p) THEN front ELSE Append(front, p)

\* The Boot() call that found the registry not booted, when t is inside it.
FirstBoot(t) ==
    /\ stack[t] # <<>> /\ stack[t][1].fn = "regBoot" /\ stack[t][1].pc = "loop"

\* C34: no provider's Boot has run in a registry not booted; the first Boot()
\* ranges over the eager providers in the order their Register ran, and the
\* Boots that have run during it are those of the first providers in that
\* order, in that order: all of them when it is about to return.
C34_BootInRegistrationOrder ==
    /\ ~booted => bootLog = <<>>
    /\ \A t \in Threads :
          FirstBoot(t) =>
              LET fr == stack[t][1] IN
              /\ fr.range = SubSeq(EagerOf(regLog), 1, Len(fr.range))
              /\ Len(bootLog) <= Len(fr.range)
              /\ bootLog = SubSeq(fr.range, 1, Len(bootLog))
              /\ (Len(stack[t]) = 1 /\ fr.i > Len(fr.range)) => bootLog = fr.range

\* C34 witness: the first Boot() is about to return, having booted two eager
\* providers in the order of their registration.
C34_Witness ==
    /\ FirstBoot(1) /\ Len(stack[1]) = 1 /\ Top(1).i > Len(Top(1).range)
    /\ regLog = <<"pEager2", "pEager">> /\ bootLog = <<"pEager2", "pEager">>

\* C35: no provider is booted twice; a Boot() called from inside a provider's
\* Boot returns without ranging over the providers; and when the first Boot()
\* is about to return, every eager provider has been booted exactly once, the
\* one registered from inside a Boot during the pass included.
C35_LateProviderBootedOnce ==
    /\ \A p \in Providers : bootCalls[p] <= 1
    /\ \A t \in Threads : \A i \in 2..Len(stack[t]) :
          stack[t][i].fn = "regBoot" => stack[t][i].pc = "start"
    /\ \A t \in Threads :
          (FirstBoot(t) /\ Len(stack[t]) = 1 /\ Top(t).i > Len(Top(t).range))
              => \A j \in 1..Len(eager) : bootCalls[eager[j]] = 1

\* C35 witness: the first Boot() is about to return; a provider's Boot has
\* registered another provider during the pass and called Boot() again, and
\* that provider, absent from the list the pass ranged over, was booted once.
C35_Witness ==
    /\ FirstBoot(1) /\ Len(stack[1]) = 1 /\ Top(1).i > Len(Top(1).range)
    /\ TimesIn(Top(1).range, "pBooter") = 1 /\ TimesIn(Top(1).range, "pLate") = 0
    /\ TimesIn(eager, "pLate") = 1
    /\ bootCalls["pLate"] = 1 /\ bootCalls["pBooter"] = 1

\* C36: however two goroutines interleave their first Make of a key of a
\* deferred provider, the provider's Register runs at most once and so does
\* its Boot.
C36_ConcurrentActivationOnce ==
    \A p \in DeferredProviders : regCalls[p] <= 1 /\ bootCalls[p] <= 1

\* C37: no Make of a key a deferred provider provides has the lazy closure
\* call itself until the goroutine's stack is used up.
C37_LazyMakeTerminates ==
    /\ ~crashed
    /\ \A t \in Threads : ~ENABLED StackOverflow(t)

\* C38: the Make that activated a deferred provider, whose Register bound the
\* key as a singleton, returns the instance now cached for the key (what every
\* later Make returns), with each extender of the key applied to it once.
C38_ActivatingMakeIdentical ==
    \A t \in Returning :
        LET fr == Top(t) IN
        (Len(stack[t]) = 1 /\ fr.f \in LazyFactories /\ BoundSingleton(fr.key))
            => /\ fr.val = instances[fr.key]
               /\ fr.val = ApplyFrom(extenders[fr.key], 1, Raw(fr.val))

\* C39: with no call in progress, Resolved(name) is true exactly when a Make
\* of its key has returned a value since the key was last registered or
\* forgotten.
C39_ResolvedIffMade ==
    (\A t \in Threads : Idle(t)) =>
        \A k \in Names : Resolved(k) <=> prev[canonical(k)] # Absent

\* C40: the canonical form of every name has no entry in the alias table, so
\* canonical applied twice gives what it gives applied once, and no entry of
\* the alias table maps a name to itself.
C40_CanonicalIdempotent ==
    \A n \in Names :
        /\ aliases[canonical(n)] = NoName
        /\ canonical(canonical(n)) = canonical(n)
        /\ aliases[n] # n

\* Providers(): the eager list.
RegistryProviders == eager

\* C20: with the registry at rest, Providers() holds each registered eager
\* provider once, and a deferred provider exactly when its Register has run.
C20_ProvidersList ==
    (\A t \in Threads : Idle(t)) =>
        \A p \in Providers :
            IF IsDeferred(p)
            THEN (TimesIn(RegistryProviders, p) > 0) <=> (regCalls[p] > 0)
            ELSE TimesIn(RegistryProviders, p) = IF registered[p] THEN 1 ELSE 0

====
